---- MODULE Spec2Model ----
(***************************************************************************)
(* VexRefiner (parser.go): timestamp normalisation of VEX documents.       *)
(*                                                                         *)
(* Strings are TLA+ strings; a Go index s[i] is the one-character string   *)
(* SubSeq(s, i+1, i+1), a Go slice s[i:] is SubSeq(s, i+1, Len(s)).        *)
(***************************************************************************)
EXTENDS Integers, Sequences, FiniteSets, TLC

VARIABLES
    folderFlag, \* main: the -folder flag
    getwdFails, \* environment: os.Getwd returns an error
    pc,         \* main: "main" | "loop" | "single" | "done"; "idle" when not run
    fs,         \* the file system, absolute path -> node
    fs0,        \* the file system when main started
    stdin,      \* the lines still to be read from standard input
    vexFiles,   \* main: the discovered files
    idx,        \* main: files of vexFiles already iterated over
    inputFile,  \* main, single-file mode
    outputFile, \* main, single-file mode
    stdout,     \* lines printed to standard output
    stderr,     \* text printed to standard error
    exitCode,   \* the process's exit status once pc = "done"
    calls,      \* history: the calls of processFile, in order
    original,   \* parseAndFormatTime: the argument of the call under study
    tpc,        \* parseAndFormatTime: "idle" | "call" | "ret" | "again"
    tres        \* parseAndFormatTime: the pairs [rfc, err] returned so far

mvars == <<folderFlag, getwdFails, pc, fs, fs0, stdin, vexFiles, idx, inputFile,
           outputFile, stdout, stderr, exitCode, calls>>

tvars == <<original, tpc, tres>>

vars == <<mvars, tvars>>

(***************************************************************************)
(* Characters and integers                                                 *)
(***************************************************************************)
Digits == "0123456789"

DigitSet == {SubSeq(Digits, k, k) : k \in 1..Len(Digits)}

DigitValues == [c \in DigitSet |-> (CHOOSE k \in 1..Len(Digits) : SubSeq(Digits, k, k) = c) - 1]

\* s[i] (0-based); "" when i is out of range (the code guards every index)
At(s, i) == IF i >= 0 /\ i < Len(s) THEN SubSeq(s, i + 1, i + 1) ELSE ""

\* s[i:]
From(s, i) == SubSeq(s, i + 1, Len(s))

\* s[:n]
Upto(s, n) == SubSeq(s, 1, n)

IsDigitChar(c) == c \in DigitSet

DigitVal(c) == DigitValues[c]

DigitChar(d) == SubSeq(Digits, d + 1, d + 1)

\* time.isDigit(s, i)
isDigit(s, i) == i < Len(s) /\ IsDigitChar(At(s, i))

\* time.commaOrPeriod(b)
commaOrPeriod(c) == c = "." \/ c = ","

\* time.leadingInt(s): the leading run of digits and the rest
RECURSIVE leadingIntFrom(_, _)
leadingIntFrom(s, x) ==
    IF isDigit(s, 0)
    THEN leadingIntFrom(From(s, 1), x * 10 + DigitVal(At(s, 0)))
    ELSE [x |-> x, rem |-> s]

leadingInt(s) == leadingIntFrom(s, 0)

\* time.atoi(s): an optional sign, then digits only
atoi(s) ==
    LET signed == Len(s) > 0 /\ (At(s, 0) = "-" \/ At(s, 0) = "+")
        neg    == signed /\ At(s, 0) = "-"
        body   == IF signed THEN From(s, 1) ELSE s
        li     == leadingInt(body)
    IN  IF Len(li.rem) > 0
        THEN [x |-> 0, err |-> "errAtoi"]
        ELSE [x |-> IF neg THEN -li.x ELSE li.x, err |-> ""]

\* time.getnum(s, fixed): one or two digits; two required when fixed
getnum(s, fixed) ==
    IF ~isDigit(s, 0) THEN [n |-> 0, rest |-> s, err |-> "errBad"]
    ELSE IF ~isDigit(s, 1)
         THEN IF fixed THEN [n |-> 0, rest |-> s, err |-> "errBad"]
              ELSE [n |-> DigitVal(At(s, 0)), rest |-> From(s, 1), err |-> ""]
         ELSE [n |-> DigitVal(At(s, 0)) * 10 + DigitVal(At(s, 1)),
               rest |-> From(s, 2), err |-> ""]

\* time.cutspace(s)
RECURSIVE cutspace(_)
cutspace(s) == IF Len(s) > 0 /\ At(s, 0) = " " THEN cutspace(From(s, 1)) ELSE s

\* time.skip(value, prefix): the literal text between two layout fields
RECURSIVE skip(_, _)
skip(value, prefix) ==
    IF Len(prefix) = 0 THEN [rest |-> value, err |-> ""]
    ELSE IF At(prefix, 0) = " "
         THEN IF Len(value) > 0 /\ At(value, 0) # " "
              THEN [rest |-> value, err |-> "errBad"]
              ELSE skip(cutspace(value), cutspace(prefix))
         ELSE IF Len(value) = 0 \/ At(value, 0) # At(prefix, 0)
              THEN [rest |-> value, err |-> "errBad"]
              ELSE skip(From(value, 1), From(prefix, 1))

RECURSIVE Pow10(_)
Pow10(k) == IF k = 0 THEN 1 ELSE 10 * Pow10(k - 1)

\* time.parseNanoseconds(value, nbytes)
parseNanoseconds(value, nbytes) ==
    IF ~commaOrPeriod(At(value, 0))
    THEN [ns |-> 0, range |-> "", err |-> "errBad"]
    ELSE LET a == atoi(SubSeq(value, 2, nbytes))
         IN  IF a.err # "" THEN [ns |-> 0, range |-> "", err |-> a.err]
             ELSE IF a.x < 0
                  THEN [ns |-> a.x, range |-> "fractional second", err |-> ""]
                  ELSE [ns |-> a.x * Pow10(10 - nbytes), range |-> "", err |-> ""]

isLeap(year) == year % 4 = 0 /\ (year % 100 # 0 \/ year % 400 = 0)

\* time.daysIn(m, year)
daysIn(m, year) ==
    IF m = 2 THEN (IF isLeap(year) THEN 29 ELSE 28)
    ELSE IF m \in {4, 6, 9, 11} THEN 30 ELSE 31

(***************************************************************************)
(* time.Parse under the layout of parseAndFormatTime                       *)
(***************************************************************************)
layout == "2006-01-02 15:04:05.000000"

\* The (prefix, std) pairs nextStdChunk cuts the layout into, in order.
LayoutChunks ==
    << [prefix |-> "",  std |-> "stdLongYear"],
       [prefix |-> "-", std |-> "stdZeroMonth"],
       [prefix |-> "-", std |-> "stdZeroDay"],
       [prefix |-> " ", std |-> "stdHour"],
       [prefix |-> ":", std |-> "stdZeroMinute"],
       [prefix |-> ":", std |-> "stdZeroSecond"],
       [prefix |-> "",  std |-> "stdFracSecond0"] >>

\* digits of the layout's fractional second field (".000000")
FracDigits == Len(layout) - 20

ZeroFields ==
    [year |-> 0, month |-> 1, day |-> 1, hour |-> 0, min |-> 0, sec |-> 0, nsec |-> 0]

\* One iteration of Parse's loop: the field `std` read at the head of value.
\* Returns the fields so far, the rest of the value, and err ("" for none).
ParseField(std, value, f) ==
    IF std = "stdLongYear" THEN
        IF Len(value) < 4 \/ ~isDigit(value, 0)
        THEN [f |-> f, rest |-> value, err |-> "errBad"]
        ELSE LET a == atoi(Upto(value, 4))
             IN  [f |-> [f EXCEPT !.year = a.x], rest |-> From(value, 4), err |-> a.err]
    ELSE IF std = "stdZeroMonth" THEN
        LET g == getnum(value, TRUE)
        IN  [f |-> [f EXCEPT !.month = g.n], rest |-> g.rest,
             err |-> IF g.err # "" THEN g.err
                     ELSE IF g.n <= 0 \/ 12 < g.n THEN "month out of range" ELSE ""]
    ELSE IF std = "stdZeroDay" THEN
        \* any two-digit day here; validated against the month after the loop
        LET g == getnum(value, TRUE)
        IN  [f |-> [f EXCEPT !.day = g.n], rest |-> g.rest, err |-> g.err]
    ELSE IF std = "stdHour" THEN
        LET g == getnum(value, FALSE)
        IN  [f |-> [f EXCEPT !.hour = g.n], rest |-> g.rest,
             err |-> IF g.err # "" THEN g.err
                     ELSE IF g.n < 0 \/ 24 <= g.n THEN "hour out of range" ELSE ""]
    ELSE IF std = "stdZeroMinute" THEN
        LET g == getnum(value, TRUE)
        IN  [f |-> [f EXCEPT !.min = g.n], rest |-> g.rest,
             err |-> IF g.err # "" THEN g.err
                     ELSE IF g.n < 0 \/ 60 <= g.n THEN "minute out of range" ELSE ""]
    ELSE IF std = "stdZeroSecond" THEN
        \* the layout's next field is the fractional second: no special case
        LET g == getnum(value, TRUE)
        IN  [f |-> [f EXCEPT !.sec = g.n], rest |-> g.rest,
             err |-> IF g.err # "" THEN g.err
                     ELSE IF g.n < 0 \/ 60 <= g.n THEN "second out of range" ELSE ""]
    ELSE \* stdFracSecond0: exactly the layout's number of digits
        LET ndigit == 1 + FracDigits
        IN  IF Len(value) < ndigit
            THEN [f |-> f, rest |-> value, err |-> "errBad"]
            ELSE LET p == parseNanoseconds(value, ndigit)
                 IN  [f |-> [f EXCEPT !.nsec = p.ns], rest |-> From(value, ndigit),
                      err |-> IF p.range # "" THEN p.range \o " out of range" ELSE p.err]

RECURSIVE ParseLoop(_, _, _)
\* Parse's loop after a field was read: its error ends the parse
ParseAfterField(k, r) ==
    IF r.err # "" THEN [f |-> r.f, err |-> r.err] ELSE ParseLoop(k + 1, r.rest, r.f)

\* Parse's loop after the chunk's prefix was skipped
ParseAfterSkip(k, s, f) ==
    IF s.err # "" THEN [f |-> f, err |-> s.err]
    ELSE ParseAfterField(k, ParseField(LayoutChunks[k].std, s.rest, f))

\* Parse's loop from the k-th chunk of the layout on: [f, err]
ParseLoop(k, value, f) ==
    IF k > Len(LayoutChunks)
    THEN [f |-> f, err |-> IF Len(value) # 0 THEN "extra text" ELSE ""]
    ELSE ParseAfterSkip(k, skip(value, LayoutChunks[k].prefix), f)

\* the end of Parse: the day is validated against its month and year
ParseDate(r) ==
    IF r.err # "" THEN [t |-> ZeroFields, err |-> r.err]
    ELSE IF r.f.day < 1 \/ r.f.day > daysIn(r.f.month, r.f.year)
         THEN [t |-> ZeroFields, err |-> "day out of range"]
         ELSE [t |-> r.f, err |-> ""]

\* time.Parse(layout, value): [t, err]; t is the zero fields on error
Parse(value) == ParseDate(ParseLoop(1, value, ZeroFields))

(***************************************************************************)
(* Time.Format(time.RFC3339Nano) of a UTC time                             *)
(***************************************************************************)
\* time.appendInt(b, x, width): decimal, zero-padded to width
RECURSIVE appendInt(_, _)
appendInt(x, width) ==
    IF width <= 1 /\ x < 10 THEN DigitChar(x)
    ELSE appendInt(x \div 10, width - 1) \o DigitChar(x % 10)

RECURSIVE TrimZeros(_)
TrimZeros(b) ==
    IF Len(b) > 0 /\ At(b, Len(b) - 1) = "0" THEN TrimZeros(Upto(b, Len(b) - 1)) ELSE b

\* appendNano after the trim: a bare separator goes too
DropBareDot(b) == IF Len(b) > 0 /\ At(b, Len(b) - 1) = "." THEN Upto(b, Len(b) - 1) ELSE b

\* time.appendNano for stdFracSecond9 with nine digits: trailing zeros trimmed,
\* nothing at all for a zero fraction
appendNano(nanosec) ==
    IF nanosec = 0 THEN "" ELSE DropBareDot(TrimZeros("." \o appendInt(nanosec, 9)))

\* "2006-01-02T15:04:05.999999999Z07:00" applied to t.UTC(): the zone field
\* of a zero offset is "Z"
FormatRFC3339Nano(t) ==
    appendInt(t.year, 4) \o "-" \o appendInt(t.month, 2) \o "-" \o appendInt(t.day, 2)
    \o "T" \o appendInt(t.hour, 2) \o ":" \o appendInt(t.min, 2) \o ":"
    \o appendInt(t.sec, 2) \o appendNano(t.nsec) \o "Z"

\* strings.HasSuffix(s, suffix)
HasSuffix(s, suffix) ==
    Len(s) >= Len(suffix) /\ SubSeq(s, Len(s) - Len(suffix) + 1, Len(s)) = suffix

\* parseAndFormatTime after the format: a "Z" is appended when there is none
EnsureZ(rfc) == [rfc |-> IF ~HasSuffix(rfc, "Z") THEN rfc \o "Z" ELSE rfc, err |-> ""]

\* parseAndFormatTime after the parse
FormatParsed(p) ==
    IF p.err # "" THEN [rfc |-> "", err |-> p.err] ELSE EnsureZ(FormatRFC3339Nano(p.t))

\* parseAndFormatTime(original): [rfc, err]
parseAndFormatTime(orig) == FormatParsed(Parse(orig))

(***************************************************************************)
(* Paths (path/filepath on a slash-separated system) and strings           *)
(***************************************************************************)
\* Bytes in ascending order, for the name order of a directory listing.
ByteOrder == " -./0123456789ABCDEFGHIJKLMNOPQRSTUVWXYZ_abcdefghijklmnopqrstuvwxyz"

ByteRanks ==
    [c \in {SubSeq(ByteOrder, k, k) : k \in 1..Len(ByteOrder)} |->
        CHOOSE k \in 1..Len(ByteOrder) : SubSeq(ByteOrder, k, k) = c]

ByteRank(c) == ByteRanks[c]

\* a < b as Go compares strings (bytewise)
RECURSIVE StrLess(_, _)
StrLess(a, b) ==
    IF Len(b) = 0 THEN FALSE
    ELSE IF Len(a) = 0 THEN TRUE
    ELSE IF At(a, 0) = At(b, 0) THEN StrLess(From(a, 1), From(b, 1))
    ELSE ByteRank(At(a, 0)) < ByteRank(At(b, 0))

\* index of the last "/" of path, -1 when it has none
RECURSIVE LastSlash(_)
LastSlash(path) ==
    IF Len(path) = 0 THEN -1
    ELSE IF At(path, Len(path) - 1) = "/" THEN Len(path) - 1
    ELSE LastSlash(Upto(path, Len(path) - 1))

RECURSIVE StripSlashes(_)
StripSlashes(path) ==
    IF Len(path) > 0 /\ At(path, Len(path) - 1) = "/"
    THEN StripSlashes(Upto(path, Len(path) - 1))
    ELSE path

\* The elements of a path between its slashes, in order.
RECURSIVE Elements(_, _)
Elements(path, cur) ==
    IF Len(path) = 0 THEN (IF cur = "" THEN <<>> ELSE <<cur>>)
    ELSE IF At(path, 0) = "/"
         THEN (IF cur = "" THEN <<>> ELSE <<cur>>) \o Elements(From(path, 1), "")
         ELSE Elements(From(path, 1), cur \o At(path, 0))

RECURSIVE JoinElements(_)
JoinElements(es) ==
    IF Len(es) = 0 THEN ""
    ELSE IF Len(es) = 1 THEN es[1]
    ELSE es[1] \o "/" \o JoinElements(Tail(es))

\* Clean, given the path's elements other than "."
CleanJoin(rooted, body) ==
    IF rooted THEN "/" \o body ELSE IF body = "" THEN "." ELSE body

\* filepath.Clean for paths without ".." elements: repeated slashes and "."
\* elements go, a trailing slash goes, the empty path is "."
Clean(path) ==
    CleanJoin(At(path, 0) = "/",
              JoinElements(SelectSeq(Elements(path, ""), LAMBDA e : e # ".")))

LastElement(q) == IF q = "" THEN "/" ELSE From(q, LastSlash(q) + 1)

\* filepath.Base(path)
Base(path) == IF path = "" THEN "." ELSE LastElement(StripSlashes(path))

\* filepath.Dir(path)
Dir(path) == Clean(Upto(path, LastSlash(path) + 1))

\* filepath.Join(dir, name)
Join(dir, name) ==
    IF dir = "" THEN (IF name = "" THEN "" ELSE Clean(name))
    ELSE IF name = "" THEN Clean(dir)
    ELSE Clean(dir \o "/" \o name)

IsSpace(c) == c = " " \/ c = "\n" \/ c = "\t" \/ c = "\r"

RECURSIVE TrimLeft(_)
TrimLeft(s) == IF Len(s) > 0 /\ IsSpace(At(s, 0)) THEN TrimLeft(From(s, 1)) ELSE s

RECURSIVE TrimRight(_)
TrimRight(s) ==
    IF Len(s) > 0 /\ IsSpace(At(s, Len(s) - 1)) THEN TrimRight(Upto(s, Len(s) - 1)) ELSE s

\* strings.TrimSpace(s)
TrimSpace(s) == TrimRight(TrimLeft(s))

\* strconv.Itoa for the %d of a statement index
Itoa(i) == appendInt(i, 1)

(***************************************************************************)
(* The VEX document and its JSON form                                      *)
(*                                                                         *)
(* A file's bytes are [syntax, obj]: syntax "bad" is text that is not      *)
(* JSON, and obj maps the keys of a JSON object to their values.  A        *)
(* number is [t |-> "n", v |-> digits], to tell 1 from "1"; strings are    *)
(* strings and the statements an array of objects.                         *)
(***************************************************************************)
Get(obj, key, zero) == IF key \in DOMAIN obj THEN obj[key] ELSE zero

JNum(n) == [t |-> "n", v |-> Itoa(n)]

\* the zero values of the struct types
ZeroVulnerability == [ID |-> "", Name |-> "", Description |-> ""]

\* json.Unmarshal into a Vulnerability: absent keys keep the zero value,
\* unknown keys are dropped
DecodeVulnerability(o) ==
    [ID          |-> Get(o, "@id", ""),
     Name        |-> Get(o, "name", ""),
     Description |-> Get(o, "description", "")]

\* json.Unmarshal into a Statement
DecodeStatement(o) ==
    [Vulnerability |-> IF "vulnerability" \in DOMAIN o
                       THEN DecodeVulnerability(o["vulnerability"])
                       ELSE ZeroVulnerability,
     Timestamp     |-> Get(o, "timestamp", ""),
     LastUpdated   |-> Get(o, "last_updated", ""),
     Status        |-> Get(o, "status", ""),
     Justification |-> Get(o, "justification", ""),
     Supplier      |-> Get(o, "supplier", "")]

\* json.Unmarshal(data, &vex): [vex, err]
Unmarshal(data) ==
    LET o   == data.obj
        ver == Get(o, "version", JNum(0))
        sts == Get(o, "statements", <<>>)
        vex == [Context     |-> Get(o, "@context", ""),
                ID          |-> Get(o, "@id", ""),
                Author      |-> Get(o, "author", ""),
                Role        |-> Get(o, "role", ""),
                Timestamp   |-> Get(o, "timestamp", ""),
                LastUpdated |-> Get(o, "last_updated", ""),
                Version     |-> IF ver.t = "n" THEN atoi(ver.v).x ELSE 0,
                Tooling     |-> Get(o, "tooling", ""),
                Statements  |-> [k \in 1..Len(sts) |-> DecodeStatement(sts[k])]]
    IN  IF data.syntax # "ok"
        THEN [vex |-> vex, err |-> "invalid character looking for beginning of value"]
        ELSE IF ver.t # "n"
             THEN [vex |-> vex,
                   err |-> "json: cannot unmarshal string into Go struct field VEX.version of type int"]
             ELSE [vex |-> vex, err |-> ""]

EncodeStatement(st) ==
    [x \in {"vulnerability", "timestamp", "last_updated", "status", "justification", "supplier"} |->
        CASE x = "vulnerability" -> [y \in {"@id", "name", "description"} |->
                                        CASE y = "@id"  -> st.Vulnerability.ID
                                          [] y = "name" -> st.Vulnerability.Name
                                          [] OTHER      -> st.Vulnerability.Description]
          [] x = "timestamp"     -> st.Timestamp
          [] x = "last_updated"  -> st.LastUpdated
          [] x = "status"        -> st.Status
          [] x = "justification" -> st.Justification
          [] OTHER               -> st.Supplier]

\* json.MarshalIndent(vex, "", "  "): [data, err]; every field of the struct is
\* written, and strings, ints and slices of structs never fail to encode
MarshalIndent(vex) ==
    [data |-> [syntax |-> "ok",
               obj |-> [x \in {"@context", "@id", "author", "role", "timestamp",
                               "last_updated", "version", "tooling", "statements"} |->
                          CASE x = "@context"     -> vex.Context
                            [] x = "@id"          -> vex.ID
                            [] x = "author"       -> vex.Author
                            [] x = "role"         -> vex.Role
                            [] x = "timestamp"    -> vex.Timestamp
                            [] x = "last_updated" -> vex.LastUpdated
                            [] x = "version"      -> JNum(vex.Version)
                            [] x = "tooling"      -> vex.Tooling
                            [] OTHER -> [k \in 1..Len(vex.Statements) |->
                                            EncodeStatement(vex.Statements[k])]]],
     err |-> ""]

(***************************************************************************)
(* The file system: absolute path -> node                                  *)
(***************************************************************************)
Absent == [kind |-> "absent"]

DirNode(readable) == [kind |-> "dir", readable |-> readable]

FileNode(readable, data) == [kind |-> "file", readable |-> readable, data |-> data]

\* the process's working directory
WorkDir == "/w"

\* a path as the operating system resolves it
Resolve(path) == IF At(path, 0) = "/" THEN Clean(path) ELSE Join(WorkDir, path)

NodeAt(fsys, q) == IF q \in DOMAIN fsys THEN fsys[q] ELSE Absent

Lookup(fsys, path) == NodeAt(fsys, Resolve(path))

\* ReadFile, given the node at the path
ReadNode(n, path) ==
    IF n.kind = "absent"
    THEN [data |-> <<>>, err |-> "open " \o path \o ": no such file or directory"]
    ELSE IF n.kind = "dir"
    THEN [data |-> <<>>, err |-> "read " \o path \o ": is a directory"]
    ELSE IF ~n.readable
    THEN [data |-> <<>>, err |-> "open " \o path \o ": permission denied"]
    ELSE [data |-> n.data, err |-> ""]

\* ioutil.ReadFile(path): [data, err]
ReadFile(fsys, path) == ReadNode(Lookup(fsys, path), path)

\* WriteFile, given the resolved path, the node there and its parent's
WriteNode(fsys, path, q, n, parent, data) ==
    IF parent.kind # "dir"
    THEN [fs |-> fsys, err |-> "open " \o path \o ": no such file or directory"]
    ELSE IF n.kind = "dir"
    THEN [fs |-> fsys, err |-> "open " \o path \o ": is a directory"]
    ELSE [fs |-> (q :> FileNode(IF n.kind = "file" THEN n.readable ELSE TRUE, data)) @@ fsys,
          err |-> ""]

WriteResolved(fsys, path, q, data) ==
    WriteNode(fsys, path, q, NodeAt(fsys, q), NodeAt(fsys, Dir(q)), data)

\* ioutil.WriteFile(path, data, 0644): [fs, err]; the file is created or
\* truncated and rewritten, keeping an existing file's permissions
WriteFile(fsys, path, data) == WriteResolved(fsys, path, Resolve(path), data)

(***************************************************************************)
(* processFile                                                             *)
(***************************************************************************)
\* A call of parseAndFormatTime on one field, as processFile makes it:
\* scope "principal" (index 0) or "statement" (its index), and the field.
Field(scope, index, field) == [scope |-> scope, index |-> index, field |-> field]

\* what processFile hands back: the error (its text; "" for nil), the file
\* system it leaves, the lines it printed, and the fields it normalised
Result(err, fsys, printed, examined) ==
    [err |-> err, fs |-> fsys, printed |-> printed, examined |-> examined]

RECURSIVE ConvertStatements(_, _, _, _)
\* StatementLastUpdated with the two new values stored in each other's field
StatementLastUpdatedSwapped(sts, i, inFile, ts, lu, examined) ==
    IF lu.err # ""
    THEN [sts |-> sts, examined |-> examined,
          err |-> "error al formatear last_updated en statement " \o Itoa(i)
                  \o " de " \o inFile \o ": " \o lu.err]
    ELSE ConvertStatements(
             [sts EXCEPT ![i + 1].Timestamp = lu.rfc, ![i + 1].LastUpdated = ts.rfc],
             i + 1, inFile, examined)

\* the loop's body after statement i's last_updated was parsed
StatementLastUpdated(sts, i, inFile, ts, lu, examined) ==
    IF lu.err # ""
    THEN [sts |-> sts, examined |-> examined,
          err |-> "error al formatear last_updated en statement " \o Itoa(i)
                  \o " de " \o inFile \o ": " \o lu.err]
    ELSE ConvertStatements(
             [sts EXCEPT ![i + 1].Timestamp = ts.rfc, ![i + 1].LastUpdated = lu.rfc],
             i + 1, inFile, examined)

\* StatementTimestamp reporting the statement's position counted from one
StatementTimestampOneBased(sts, i, inFile, ts, examined) ==
    IF ts.err # ""
    THEN [sts |-> sts, examined |-> examined,
          err |-> "error al formatear timestamp en statement " \o Itoa(i + 1)
                  \o " de " \o inFile \o ": " \o ts.err]
    ELSE StatementLastUpdated(sts, i, inFile, ts,
             parseAndFormatTime(sts[i + 1].LastUpdated),
             Append(examined, Field("statement", i, "last_updated")))

\* the loop's body after statement i's timestamp was parsed
StatementTimestamp(sts, i, inFile, ts, examined) ==
    IF ts.err # ""
    THEN [sts |-> sts, examined |-> examined,
          err |-> "error al formatear timestamp en statement " \o Itoa(i)
                  \o " de " \o inFile \o ": " \o ts.err]
    ELSE StatementLastUpdated(sts, i, inFile, ts,
             parseAndFormatTime(sts[i + 1].LastUpdated),
             Append(examined, Field("statement", i, "last_updated")))

\* The loop over vex.Statements from index i (0-based): [sts, err, examined]
ConvertStatements(sts, i, inFile, examined) ==
    IF i >= Len(sts) THEN [sts |-> sts, err |-> "", examined |-> examined]
    ELSE StatementTimestamp(sts, i, inFile,
             parseAndFormatTime(sts[i + 1].Timestamp),
             Append(examined, Field("statement", i, "timestamp")))

\* allNotAffected without the break: the last statement alone decides
allNotAffectedLast(sts) ==
    IF Len(sts) = 0 THEN TRUE ELSE sts[Len(sts)].Status = "not_affected"

\* the flag computed after the write: no statement has another status
RECURSIVE allNotAffected(_)
allNotAffected(sts) ==
    IF Len(sts) = 0 THEN TRUE
    ELSE IF Head(sts).Status # "not_affected" THEN FALSE
    ELSE allNotAffected(Tail(sts))

Line(kind, file) == [kind |-> kind, file |-> file]

\* Report printing the completion message after the warning too
ReportBoth(w, inFile, outFile, vex, examined) ==
    IF w.err # ""
    THEN Result("error al escribir el archivo " \o outFile \o ": " \o w.err,
                w.fs, <<>>, examined)
    ELSE IF allNotAffected(vex.Statements)
         THEN Result("", w.fs, <<Line("warning", inFile), Line("completed", inFile)>>, examined)
         ELSE Result("", w.fs, <<Line("completed", inFile)>>, examined)

\* processFile after the write: the one line it prints
Report(w, inFile, outFile, vex, examined) ==
    IF w.err # ""
    THEN Result("error al escribir el archivo " \o outFile \o ": " \o w.err,
                w.fs, <<>>, examined)
    ELSE IF allNotAffected(vex.Statements)
         THEN Result("", w.fs, <<Line("warning", inFile)>>, examined)
         ELSE Result("", w.fs, <<Line("completed", inFile)>>, examined)

\* processFile after the serialisation
WriteOutput(fsys, inFile, outFile, m, vex, examined) ==
    IF m.err # ""
    THEN Result("error al serializar a JSON en " \o inFile \o ": " \o m.err,
                fsys, <<>>, examined)
    ELSE Report(WriteFile(fsys, outFile, m.data), inFile, outFile, vex, examined)

\* processFile after every statement was converted
StatementsConverted(fsys, inFile, outFile, vex, c) ==
    IF c.err # "" THEN Result(c.err, fsys, <<>>, c.examined)
    ELSE WriteOutput(fsys, inFile, outFile,
             MarshalIndent([vex EXCEPT !.Statements = c.sts]),
             [vex EXCEPT !.Statements = c.sts], c.examined)

\* processFile after the document's last_updated was parsed
MainLastUpdated(fsys, inFile, outFile, vex, t1, t2, examined) ==
    IF t2.err # ""
    THEN Result("error al formatear last_updated principal en " \o inFile \o ": " \o t2.err,
                fsys, <<>>, examined)
    ELSE StatementsConverted(fsys, inFile, outFile,
             [vex EXCEPT !.Timestamp = t1.rfc, !.LastUpdated = t2.rfc],
             ConvertStatements(vex.Statements, 0, inFile, examined))

\* MainTimestamp naming the output file in its error
MainTimestampOutput(fsys, inFile, outFile, vex, t1, examined) ==
    IF t1.err # ""
    THEN Result("error al formatear timestamp principal en " \o outFile \o ": " \o t1.err,
                fsys, <<>>, examined)
    ELSE MainLastUpdated(fsys, inFile, outFile, vex, t1,
             parseAndFormatTime(vex.LastUpdated),
             Append(examined, Field("principal", 0, "last_updated")))

\* processFile after the document's timestamp was parsed
MainTimestamp(fsys, inFile, outFile, vex, t1, examined) ==
    IF t1.err # ""
    THEN Result("error al formatear timestamp principal en " \o inFile \o ": " \o t1.err,
                fsys, <<>>, examined)
    ELSE MainLastUpdated(fsys, inFile, outFile, vex, t1,
             parseAndFormatTime(vex.LastUpdated),
             Append(examined, Field("principal", 0, "last_updated")))

\* processFile after the JSON was decoded
Decoded(fsys, inFile, outFile, um) ==
    IF um.err # ""
    THEN Result("error al parsear JSON en " \o inFile \o ": " \o um.err, fsys, <<>>, <<>>)
    ELSE MainTimestamp(fsys, inFile, outFile, um.vex,
             parseAndFormatTime(um.vex.Timestamp),
             <<Field("principal", 0, "timestamp")>>)

\* processFile after the file was read
FileRead(fsys, inFile, outFile, rd) ==
    IF rd.err # ""
    THEN Result("error leyendo el archivo " \o inFile \o ": " \o rd.err, fsys, <<>>, <<>>)
    ELSE Decoded(fsys, inFile, outFile, Unmarshal(rd.data))

processFile(fsys, inFile, outFile) ==
    FileRead(fsys, inFile, outFile, ReadFile(fsys, inFile))

(***************************************************************************)
(* filepath.WalkDir with main's callback                                   *)
(***************************************************************************)
\* the entry of S whose name sorts first
FirstByName(S) == CHOOSE x \in S : \A y \in S \ {x} : StrLess(Base(x), Base(y))

RECURSIVE SortByName(_)
SortFrom(m, S) == <<m>> \o SortByName(S \ {m})

\* the entries of a directory, sorted by name as os.ReadDir returns them
SortByName(S) == IF S = {} THEN <<>> ELSE SortFrom(FirstByName(S), S)

Children(fsys, path) ==
    SortByName({q \in DOMAIN fsys : q # path /\ Dir(q) = path /\ fsys[q].kind # "absent"})

\* main's callback: acc is [vexFiles, stderr]; it always returns nil
WalkFn(acc, path, node, err) ==
    IF err # ""
    THEN [acc EXCEPT !.stderr = Append(@, "Error accediendo a " \o path \o ": " \o err \o "\n")]
    ELSE IF node.kind # "dir" /\ Base(path) = "vex.json"
         THEN [acc EXCEPT !.vexFiles = Append(@, path)]
         ELSE acc

RECURSIVE walkDir(_, _, _)
RECURSIVE walkList(_, _, _)
\* walkDir after fn was called on the entry itself
walkInto(fsys, path, node, a1) ==
    IF node.kind # "dir" THEN a1
    ELSE IF ~node.readable
         THEN WalkFn(a1, path, node, "open " \o path \o ": permission denied")
         ELSE walkList(fsys, Children(fsys, path), a1)

walkDir(fsys, path, acc) ==
    walkInto(fsys, path, fsys[path], WalkFn(acc, path, fsys[path], ""))

walkList(fsys, paths, acc) ==
    IF Len(paths) = 0 THEN acc
    ELSE walkList(fsys, Tail(paths), walkDir(fsys, Head(paths), acc))

WalkResult(acc) == [vexFiles |-> acc.vexFiles, stderr |-> acc.stderr, err |-> ""]

\* filepath.WalkDir(root, fn): [vexFiles, stderr, err]; err is what fn
\* returned to stop the walk, and main's fn never stops it
WalkDir(fsys, root) ==
    WalkResult(IF Lookup(fsys, root).kind = "absent"
               THEN WalkFn([vexFiles |-> <<>>, stderr |-> <<>>], root, Absent,
                           "lstat " \o root \o ": no such file or directory")
               ELSE walkDir(fsys, Clean(root), [vexFiles |-> <<>>, stderr |-> <<>>]))

(***************************************************************************)
(* Input documents                                                         *)
(***************************************************************************)
MaxStatements == 2
MaxDirs == 2

TsA       == "2024-01-15 10:30:00.123456"
TsB       == "2023-12-31 23:59:59.000000"
TsRFC     == "2024-01-15T10:30:00Z"
TsShortHr == "2024-01-15 9:30:00.123456"

DocStamps  == {<<TsA, TsB>>, <<TsRFC, TsB>>, <<TsA, TsRFC>>, <<TsRFC, TsRFC>>, <<TsShortHr, TsB>>}
StmtStamps == {<<TsB, TsA>>, <<TsRFC, TsA>>, <<TsB, TsRFC>>}
Statuses   == {"not_affected", "affected", "NOT_AFFECTED"}

\* every status with well-formed stamps, and each malformed stamp once
StmtChoices ==
    {[stamps |-> <<TsB, TsA>>, status |-> st] : st \in Statuses}
    \cup {[stamps |-> p, status |-> "not_affected"] : p \in StmtStamps}

StmtLists == UNION {[1..n -> StmtChoices] : n \in 0..MaxStatements}

StatementJSON(c, k) ==
    [x \in {"vulnerability", "timestamp", "last_updated", "status", "justification",
            "supplier", "x-note"} |->
        CASE x = "vulnerability" -> [y \in {"@id", "name", "description"} |->
                                        CASE y = "@id"  -> "CVE-2024-000" \o Itoa(k)
                                          [] y = "name" -> "vuln" \o Itoa(k)
                                          [] OTHER      -> "about vuln " \o Itoa(k)]
          [] x = "timestamp"     -> c.stamps[1]
          [] x = "last_updated"  -> c.stamps[2]
          [] x = "status"        -> c.status
          [] x = "justification" -> "component_not_present"
          [] x = "supplier"      -> "acme"
          [] OTHER               -> "dropped on decode"]

\* a well-formed document: every key of the schema, and one the schema lacks
DocJSON(stamps, stmts) ==
    [syntax |-> "ok",
     obj |-> [x \in {"@context", "@id", "author", "role", "timestamp", "last_updated",
                     "version", "tooling", "statements", "x-extra"} |->
                CASE x = "@context"     -> "https://openvex.dev/ns"
                  [] x = "@id"          -> "https://example.org/vex-1"
                  [] x = "author"       -> "alice"
                  [] x = "role"         -> "maintainer"
                  [] x = "timestamp"    -> stamps[1]
                  [] x = "last_updated" -> stamps[2]
                  [] x = "version"      -> JNum(3)
                  [] x = "tooling"      -> "vexgen"
                  [] x = "statements"   -> [k \in 1..Len(stmts) |-> StatementJSON(stmts[k], k)]
                  [] OTHER              -> "dropped on decode"]]

NotJSON == [syntax |-> "bad", obj |-> [x \in {"raw"} |-> "<html>"]]

\* "version": "3"
VersionAsString ==
    [syntax |-> "ok",
     obj |-> [x \in DOMAIN DocJSON(<<TsA, TsB>>, <<>>).obj |->
                IF x = "version" THEN [t |-> "s", v |-> "3"]
                ELSE DocJSON(<<TsA, TsB>>, <<>>).obj[x]]]

\* no "timestamp" and no "statements" key
KeysMissing ==
    [syntax |-> "ok",
     obj |-> [x \in {"@id", "last_updated", "version"} |-> DocJSON(<<TsA, TsB>>, <<>>).obj[x]]]

\* no "statements" key, both timestamps well formed
NoStatementsKey ==
    [syntax |-> "ok",
     obj |-> [x \in {"@id", "timestamp", "last_updated"} |-> DocJSON(<<TsA, TsB>>, <<>>).obj[x]]]

NA(p)  == [stamps |-> p, status |-> "not_affected"]
AFF(p) == [stamps |-> p, status |-> "affected"]

\* what the file a single-file run reads may be
RichNodes ==
    {FileNode(TRUE, DocJSON(p, l)) : p \in DocStamps, l \in StmtLists}
    \cup {Absent, DirNode(TRUE), FileNode(FALSE, DocJSON(<<TsA, TsB>>, <<>>)),
          FileNode(TRUE, NotJSON), FileNode(TRUE, VersionAsString),
          FileNode(TRUE, KeysMissing), FileNode(TRUE, NoStatementsKey)}

DocAllNA   == DocJSON(<<TsA, TsB>>, <<NA(<<TsB, TsA>>), NA(<<TsB, TsA>>)>>)
DocMixed   == DocJSON(<<TsA, TsB>>, <<NA(<<TsB, TsA>>), AFF(<<TsB, TsA>>)>>)
DocBadTime == DocJSON(<<TsA, TsB>>, <<NA(<<TsB, TsA>>), AFF(<<TsB, TsRFC>>)>>)

\* what a directory of a recursive run may hold: the node at its vex.json
\* and the node at its vex-modificado.json
DirCases ==
    {[vex |-> Absent,                     out |-> Absent],
     [vex |-> DirNode(TRUE),              out |-> Absent],
     [vex |-> FileNode(FALSE, DocAllNA),  out |-> Absent],
     [vex |-> FileNode(TRUE, NotJSON),    out |-> FileNode(TRUE, NotJSON)],
     [vex |-> FileNode(TRUE, DocAllNA),   out |-> Absent],
     [vex |-> FileNode(TRUE, DocMixed),   out |-> FileNode(TRUE, NotJSON)],
     [vex |-> FileNode(TRUE, DocMixed),   out |-> DirNode(TRUE)],
     [vex |-> FileNode(TRUE, DocBadTime), out |-> FileNode(TRUE, NotJSON)]}

(***************************************************************************)
(* The directory trees of a recursive run                                  *)
(***************************************************************************)
DirPool == <<"/w", "/w/a/c", "/w/b", "/w/a">>

TreeDirs == {DirPool[k] : k \in 1..(IF MaxDirs < Len(DirPool) THEN MaxDirs ELSE Len(DirPool))}

\* dc: directory -> what it holds
Tree(dc, aReadable) ==
    [p \in {"/w", "/w/a", "/w/a/vex.json.bak"} |->
        IF p = "/w" THEN DirNode(TRUE)
        ELSE IF p = "/w/a" THEN DirNode(aReadable)
        ELSE FileNode(TRUE, DocAllNA)]
    @@ [p \in TreeDirs |-> DirNode(TRUE)]
    @@ [p \in {Join(d, "vex.json") : d \in TreeDirs} |-> dc[Dir(p)].vex]
    @@ [p \in {Join(d, "vex-modificado.json") : d \in TreeDirs} |-> dc[Dir(p)].out]

Trees == {Tree(dc, r) : dc \in [TreeDirs -> DirCases], r \in BOOLEAN}

\* single-file mode: the file the first answer names holds `node`
SingleTree(first, node, out) ==
    LET named == Resolve(IF TrimSpace(first) = "" THEN "vex.json" ELSE TrimSpace(first))
    IN  [p \in {"/w", "/w/vex.json", "/w/in.json", "/w/vex-modificado.json"} |->
            IF p = "/w" THEN DirNode(TRUE)
            ELSE IF p = named THEN node
            ELSE IF p = "/w/vex-modificado.json" THEN out
            ELSE FileNode(TRUE, NotJSON)]

\* the two answers on standard input, and the node at ./vex-modificado.json
SingleRuns ==
    {[first |-> "\n",          second |-> "\n",           out |-> Absent],
     [first |-> "\n",          second |-> "\n",           out |-> DirNode(TRUE)],
     [first |-> " in.json \n", second |-> "in.json\n",    out |-> Absent],
     [first |-> " in.json \n", second |-> "out/res.json", out |-> Absent]}

TimeIdle ==
    /\ original = ""
    /\ tpc = "idle"
    /\ tres = <<>>

MainCommon ==
    /\ pc = "main"
    /\ fs0 = fs
    /\ vexFiles = <<>>
    /\ idx = 0
    /\ inputFile = ""
    /\ outputFile = ""
    /\ stdout = <<>>
    /\ stderr = <<>>
    /\ exitCode = 0
    /\ calls = <<>>
    /\ TimeIdle

InitFolder ==
    /\ folderFlag = TRUE
    /\ stdin = <<>>
    /\ \/ getwdFails = FALSE /\ fs \in Trees
       \/ getwdFails = TRUE  /\ fs = Tree([d \in TreeDirs |-> [vex |-> Absent, out |-> Absent]],
                                          TRUE)
    /\ MainCommon

InitSingle ==
    /\ folderFlag = FALSE
    /\ getwdFails = FALSE
    /\ \E run \in SingleRuns, n \in RichNodes :
          /\ stdin = <<run.first, run.second>>
          /\ fs = SingleTree(run.first, n, run.out)
    /\ MainCommon

Init == InitFolder \/ InitSingle

(***************************************************************************)
(* main                                                                    *)
(***************************************************************************)
Call(inFile, outFile, fsys, r) ==
    [input |-> inFile, output |-> outFile, err |-> r.err, examined |-> r.examined,
     printed |-> r.printed, before |-> fsys, after |-> r.fs]

\* os.Exit(code), or the return of main
Exit(code) == pc' = "done" /\ exitCode' = code

\* -folder: os.Getwd, the walk, and the check for no file at all
FolderDiscover ==
    /\ pc = "main" /\ folderFlag
    /\ IF getwdFails
       THEN /\ stderr' = Append(stderr, "Error obteniendo el directorio actual: getwd\n")
            /\ Exit(1)
            /\ UNCHANGED <<vexFiles, stdout>>
       ELSE \E w \in {WalkDir(fs, WorkDir)} :
                /\ vexFiles' = w.vexFiles
                /\ IF w.err # ""
                   THEN /\ stderr' = stderr \o w.stderr
                                     \o <<"Error al recorrer los directorios: " \o w.err \o "\n">>
                        /\ Exit(1)
                        /\ UNCHANGED stdout
                   ELSE /\ stderr' = stderr \o w.stderr
                        /\ IF Len(w.vexFiles) = 0
                           THEN /\ stdout' = Append(stdout, Line("nofiles", ""))
                                /\ Exit(0)
                           ELSE /\ pc' = "loop"
                                /\ UNCHANGED <<stdout, exitCode>>
    /\ UNCHANGED <<folderFlag, getwdFails, fs, fs0, stdin, idx, inputFile, outputFile, calls>>
    /\ UNCHANGED tvars

\* FolderFile ending the run at the first file that fails
FolderFileStopOnError ==
    /\ pc = "loop" /\ idx < Len(vexFiles)
    /\ \E file \in {vexFiles[idx + 1]} :
       \E out \in {Join(Dir(file), "vex-modificado.json")} :
       \E r \in {processFile(fs, file, out)} :
           /\ fs' = r.fs
           /\ stdout' = stdout \o r.printed
           /\ calls' = Append(calls, Call(file, out, fs, r))
           /\ IF r.err # ""
              THEN stderr' = Append(stderr, "\n" \o r.err \o "\n") /\ Exit(1)
              ELSE stderr' = stderr /\ UNCHANGED <<pc, exitCode>>
    /\ idx' = idx + 1
    /\ UNCHANGED <<folderFlag, getwdFails, fs0, stdin, vexFiles, inputFile, outputFile>>
    /\ UNCHANGED tvars

\* FolderFile writing each document back over its input
FolderFileInPlace ==
    /\ pc = "loop" /\ idx < Len(vexFiles)
    /\ \E file \in {vexFiles[idx + 1]} :
       \E r \in {processFile(fs, file, file)} :
           /\ fs' = r.fs
           /\ stdout' = stdout \o r.printed
           /\ stderr' = IF r.err # "" THEN Append(stderr, "\n" \o r.err \o "\n") ELSE stderr
           /\ calls' = Append(calls, Call(file, file, fs, r))
    /\ idx' = idx + 1
    /\ UNCHANGED <<folderFlag, getwdFails, pc, fs0, stdin, vexFiles, inputFile, outputFile,
                   exitCode>>
    /\ UNCHANGED tvars

\* one iteration of the loop over vexFiles
FolderFile ==
    /\ pc = "loop" /\ idx < Len(vexFiles)
    /\ \E file \in {vexFiles[idx + 1]} :
       \E dir \in {Dir(file)} :
       \E out \in {Join(dir, "vex-modificado.json")} :
       \E r \in {processFile(fs, file, out)} :
           /\ fs' = r.fs
           /\ stdout' = stdout \o r.printed
           /\ stderr' = IF r.err # "" THEN Append(stderr, "\n" \o r.err \o "\n") ELSE stderr
           /\ calls' = Append(calls, Call(file, out, fs, r))
    /\ idx' = idx + 1
    /\ UNCHANGED <<folderFlag, getwdFails, pc, fs0, stdin, vexFiles, inputFile, outputFile,
                   exitCode>>
    /\ UNCHANGED tvars

\* after the loop
FolderDone ==
    /\ pc = "loop" /\ idx = Len(vexFiles)
    /\ stdout' = Append(stdout, Line("alldone", ""))
    /\ Exit(0)
    /\ UNCHANGED <<folderFlag, getwdFails, fs, fs0, stdin, vexFiles, idx, inputFile,
                   outputFile, stderr, calls>>
    /\ UNCHANGED tvars

\* reader.ReadString('\n'): the next line, or "" at the end of the input
NextLine(in) == IF Len(in) = 0 THEN "" ELSE Head(in)

RestLines(in) == IF Len(in) = 0 THEN in ELSE Tail(in)

\* single-file mode: the two prompts and their defaults
SinglePrompt ==
    /\ pc = "main" /\ ~folderFlag
    /\ \E a \in {TrimSpace(NextLine(stdin))}, b \in {TrimSpace(NextLine(RestLines(stdin)))} :
           /\ inputFile' = IF a = "" THEN "vex.json" ELSE a
           /\ outputFile' = IF b = "" THEN "vex-modificado.json" ELSE b
    /\ stdin' = RestLines(RestLines(stdin))
    /\ stdout' = stdout \o <<Line("prompt_in", ""), Line("prompt_out", "")>>
    /\ pc' = "single"
    /\ UNCHANGED <<folderFlag, getwdFails, fs, fs0, vexFiles, idx, stderr, exitCode, calls>>
    /\ UNCHANGED tvars

\* SingleFile returning from main after the diagnostic
SingleFileExitZero ==
    /\ pc = "single"
    /\ \E r \in {processFile(fs, inputFile, outputFile)} :
           /\ fs' = r.fs
           /\ stdout' = stdout \o r.printed
           /\ calls' = Append(calls, Call(inputFile, outputFile, fs, r))
           /\ stderr' = IF r.err # "" THEN Append(stderr, "\n" \o r.err \o "\n") ELSE stderr
           /\ Exit(0)
    /\ UNCHANGED <<folderFlag, getwdFails, fs0, stdin, vexFiles, idx, inputFile, outputFile>>
    /\ UNCHANGED tvars

\* single-file mode: the one call of processFile and the exit
SingleFile ==
    /\ pc = "single"
    /\ \E r \in {processFile(fs, inputFile, outputFile)} :
           /\ fs' = r.fs
           /\ stdout' = stdout \o r.printed
           /\ calls' = Append(calls, Call(inputFile, outputFile, fs, r))
           /\ IF r.err # ""
              THEN stderr' = Append(stderr, "\n" \o r.err \o "\n") /\ Exit(1)
              ELSE stderr' = stderr /\ Exit(0)
    /\ UNCHANGED <<folderFlag, getwdFails, fs0, stdin, vexFiles, idx, inputFile, outputFile>>
    /\ UNCHANGED tvars

FolderNext == FolderDiscover \/ FolderFile \/ FolderDone

Next == FolderDiscover \/ FolderFile \/ FolderDone \/ SinglePrompt \/ SingleFile

Spec == Init /\ [][Next]_vars

(* What a step of the -folder branch does to the control state: from the
   start main goes to the loop or exits; in the loop it takes the next file
   or leaves.  Every step of FolderNext is such a step, and FolderNext has a
   step in every state where pc is "main" or "loop". *)
FolderControl ==
    /\ folderFlag /\ pc \in {"main", "loop"}
    /\ pc' \in {"loop", "done"}
    /\ idx' \in {idx, idx + 1}

(* The recursive run alone.  main is sequential code: while it has not
   exited it takes its next step, which is weak fairness of its control. *)
FolderSpec == InitFolder /\ [][FolderNext]_vars /\ WF_<<pc, idx>>(FolderControl)

MainIdle ==
    /\ folderFlag = FALSE
    /\ getwdFails = FALSE
    /\ pc = "idle"
    /\ fs = <<>>
    /\ fs0 = <<>>
    /\ stdin = <<>>
    /\ vexFiles = <<>>
    /\ idx = 0
    /\ inputFile = ""
    /\ outputFile = ""
    /\ stdout = <<>>
    /\ stderr = <<>>
    /\ exitCode = 0
    /\ calls = <<>>

(***************************************************************************)
(* Source timestamps: a date, a separator, a time of day and a fraction    *)
(***************************************************************************)
SrcDates == {"2024-01-15", "2024-02-29", "2023-02-29", "1900-02-29", "2024-13-01",
             "0999-12-31", "2024/01/15", "24-01-15", "2024-1-15", "2024-04-31"}
SrcSeps  == {" ", "T", "  ", ""}
SrcTimes == {"10:30:00", "00:00:00", "23:59:59", "9:30:00", "24:00:00",
             "10:60:00", "10:30:60", "10:30", "1a:30:00", "10.30.00"}
SrcFracs == {".123456", ".000000", ".120000", ".000001", ",123456", ".12345",
             ".1234567", "", ".+12345", ".-12345", ".12a456", ".123456Z", ":123456"}

SrcTimestamps ==
    {d \o s \o t \o fr : d \in SrcDates, s \in SrcSeps, t \in SrcTimes, fr \in SrcFracs}

TimeInit ==
    /\ MainIdle
    /\ original \in SrcTimestamps
    /\ tpc = "call"
    /\ tres = <<>>

TimeCall ==
    /\ tpc = "call"
    /\ tres' = Append(tres, parseAndFormatTime(original))
    /\ tpc' = "ret"
    /\ UNCHANGED original
    /\ UNCHANGED mvars

\* the same source normalised a second time
TimeAgain ==
    /\ tpc = "ret"
    /\ tres' = Append(tres, parseAndFormatTime(original))
    /\ tpc' = "again"
    /\ UNCHANGED original
    /\ UNCHANGED mvars

TimeNext == TimeCall \/ TimeAgain

TimeSpec == TimeInit /\ [][TimeNext]_vars

(***************************************************************************)
(* Properties                                                              *)
(***************************************************************************)
Contains(s, sub) == \E k \in 0..(Len(s) - Len(sub)) : SubSeq(s, k + 1, k + Len(sub)) = sub

\* the decimal number written at s[i..i+n-1] (1-based), -1 when not digits
NumAt(s, i, n) ==
    IF \A k \in i..(i + n - 1) : SubSeq(s, k, k) \in DigitSet
    THEN atoi(SubSeq(s, i, i + n - 1)).x
    ELSE -1

MonthDays == <<31, 28, 31, 30, 31, 30, 31, 31, 30, 31, 30, 31>>

RealDate(y, m, d) ==
    /\ m \in 1..12
    /\ d >= 1
    /\ d <= IF m = 2 /\ y % 4 = 0 /\ (y % 100 # 0 \/ y % 400 = 0) THEN 29 ELSE MonthDays[m]

\* s is a timestamp YYYY-MM-DD HH:MM:SS.ffffff
MatchesPattern(s) ==
    /\ Len(s) = Len("YYYY-MM-DD HH:MM:SS.ffffff")
    /\ SubSeq(s, 5, 5) = "-" /\ SubSeq(s, 8, 8) = "-" /\ SubSeq(s, 11, 11) = " "
    /\ SubSeq(s, 14, 14) = ":" /\ SubSeq(s, 17, 17) = ":" /\ SubSeq(s, 20, 20) = "."
    /\ NumAt(s, 1, 4) >= 0 /\ NumAt(s, 6, 2) >= 0 /\ NumAt(s, 9, 2) >= 0
    /\ NumAt(s, 12, 2) \in 0..23 /\ NumAt(s, 15, 2) \in 0..59 /\ NumAt(s, 18, 2) \in 0..59
    /\ NumAt(s, 21, 6) >= 0
    /\ RealDate(NumAt(s, 1, 4), NumAt(s, 6, 2), NumAt(s, 9, 2))

RECURSIVE PadZeros(_, _)
PadZeros(s, n) == IF Len(s) >= n THEN s ELSE PadZeros(s \o "0", n)

\* rfc is the RFC3339 form, in UTC, of the instant the source s names
SameInstant(s, rfc) ==
    /\ Len(rfc) >= 20
    /\ SubSeq(rfc, 1, 10) = SubSeq(s, 1, 10)
    /\ SubSeq(rfc, 11, 11) = "T"
    /\ SubSeq(rfc, 12, 19) = SubSeq(s, 12, 19)
    /\ SubSeq(rfc, Len(rfc), Len(rfc)) = "Z"
    /\ ~Contains(SubSeq(rfc, 1, Len(rfc) - 1), "Z")
    /\ IF Len(rfc) = 20 THEN SubSeq(s, 21, 26) = "000000"
       ELSE /\ SubSeq(rfc, 20, 20) = "."
            /\ Len(rfc) <= 27
            /\ PadZeros(SubSeq(rfc, 21, Len(rfc) - 1), 6) = SubSeq(s, 21, 26)

\* the document processFile decoded in call c, when it read and decoded one
ReadOk(c) == ReadFile(c.before, c.input).err = ""

DecodeOk(c) == ReadOk(c) /\ Unmarshal(ReadFile(c.before, c.input).data).err = ""

DecodedDoc(c) == Unmarshal(ReadFile(c.before, c.input).data).vex

\* the timestamp fields of a document in the order of the claim, with values
RECURSIVE StatementFields(_, _)
StatementFields(sts, i) ==
    IF i >= Len(sts) THEN <<>>
    ELSE << [f |-> Field("statement", i, "timestamp"), v |-> sts[i + 1].Timestamp],
            [f |-> Field("statement", i, "last_updated"), v |-> sts[i + 1].LastUpdated] >>
         \o StatementFields(sts, i + 1)

DocFields(d) ==
    << [f |-> Field("principal", 0, "timestamp"), v |-> d.Timestamp],
       [f |-> Field("principal", 0, "last_updated"), v |-> d.LastUpdated] >>
    \o StatementFields(d.Statements, 0)

OutputNode(c, fsys) == NodeAt(fsys, Resolve(c.output))

AllStatus(d) == \A k \in 1..Len(d.Statements) : d.Statements[k].Status = "not_affected"

(* C1: in recursive mode processFile is attempted once per discovered file, in
   discovery order, whatever fails, and the run then ends with exit code 0
   (also when nothing was discovered). *)
C1_InOrder ==
    /\ Len(calls) = idx
    /\ idx <= Len(vexFiles)
    /\ \A k \in 1..Len(calls) : calls[k].input = vexFiles[k]

C1_Finished ==
    /\ pc = "done" /\ exitCode = 0
    /\ Len(calls) = Len(vexFiles)
    /\ \A k \in 1..Len(calls) : calls[k].input = vexFiles[k]

C1_EveryFileAttempted ==
    /\ [](folderFlag => C1_InOrder)
    /\ ((folderFlag /\ pc = "main" /\ ~getwdFails) ~> C1_Finished)

C1_Witness ==
    /\ folderFlag /\ pc = "done" /\ exitCode = 0
    /\ Len(calls) = 2 /\ calls[1].err # "" /\ calls[2].err = ""

(* C2: single-file mode exits non-zero exactly when processFile returned an
   error, after printing that error to standard error; otherwise it exits 0. *)
C2_SingleExit ==
    (~folderFlag /\ pc = "done") =>
        /\ Len(calls) = 1
        /\ (exitCode # 0) <=> (calls[1].err # "")
        /\ calls[1].err # "" => /\ Len(stderr) = 1
                                /\ Contains(stderr[1], calls[1].err)
        /\ calls[1].err = "" => exitCode = 0 /\ stderr = <<>>

C2_Witness ==
    ~folderFlag /\ pc = "done" /\ exitCode # 0 /\ Len(stderr) = 1

(* C3: when the input cannot be read or decoded, or a timestamp field does
   not match the source pattern, processFile returns an error, leaves the
   output path as it was and prints nothing. *)
C3_Precondition(c) ==
    \/ ~DecodeOk(c)
    \/ \E k \in 1..Len(DocFields(DecodedDoc(c))) : ~MatchesPattern(DocFields(DecodedDoc(c))[k].v)

C3_AtomicFailure ==
    \A k \in 1..Len(calls) :
        C3_Precondition(calls[k]) =>
            /\ calls[k].err # ""
            /\ OutputNode(calls[k], calls[k].after) = OutputNode(calls[k], calls[k].before)
            /\ calls[k].printed = <<>>

(* C4: the timestamp fields are normalised in the order document timestamp,
   document last_updated, then each statement's timestamp and last_updated;
   processFile stops at the first one that fails, and its error names that
   field and, for a statement, its zero-based index, and no other field. *)
FieldLabel(f) ==
    IF f.scope = "principal" THEN f.field \o " principal"
    ELSE f.field \o " en statement " \o Itoa(f.index) \o " "

Fails(v) == parseAndFormatTime(v).err # ""

FirstFailure(fields) ==
    IF \E k \in 1..Len(fields) : Fails(fields[k].v)
    THEN CHOOSE k \in 1..Len(fields) :
            Fails(fields[k].v) /\ \A j \in 1..(k - 1) : ~Fails(fields[j].v)
    ELSE 0

C4_Call(c, fields, k) ==
    IF k = 0
    THEN c.examined = [j \in 1..Len(fields) |-> fields[j].f]
    ELSE /\ c.examined = [j \in 1..k |-> fields[j].f]
         /\ c.err # ""
         /\ Contains(c.err, "error al formatear " \o FieldLabel(fields[k].f))
         /\ \A j \in 1..Len(fields) :
                j # k => ~Contains(c.err, FieldLabel(fields[j].f))

C4_FailFast ==
    \A n \in 1..Len(calls) :
        DecodeOk(calls[n]) =>
            C4_Call(calls[n], DocFields(DecodedDoc(calls[n])),
                    FirstFailure(DocFields(DecodedDoc(calls[n]))))

C4_Witness ==
    \E n \in 1..Len(calls) :
        /\ DecodeOk(calls[n])
        /\ Len(DecodedDoc(calls[n]).Statements) = 2
        /\ calls[n].err # ""
        /\ calls[n].examined[Len(calls[n].examined)] = Field("statement", 0, "last_updated")

(* C5: the flag allNotAffected is true exactly when there is no statement or
   every statement's status is the string "not_affected". *)
C5_Flag ==
    \A n \in 1..Len(calls) :
        DecodeOk(calls[n]) =>
            (allNotAffected(DecodedDoc(calls[n]).Statements) <=> AllStatus(DecodedDoc(calls[n])))

C5_Witness ==
    \E n \in 1..Len(calls) :
        /\ DecodeOk(calls[n]) /\ calls[n].err = ""
        /\ Len(DecodedDoc(calls[n]).Statements) = 2
        /\ DecodedDoc(calls[n]).Statements[1].Status = "not_affected"
        /\ DecodedDoc(calls[n]).Statements[2].Status = "NOT_AFFECTED"
        /\ ~allNotAffected(DecodedDoc(calls[n]).Statements)

(* C6: a call that succeeds prints exactly one line, the warning when every
   statement is not_affected and the completion message otherwise, and a line
   is printed only once the output file has been written. *)
ReportLines == {k \in 1..Len(stdout) : stdout[k].kind \in {"warning", "completed"}}

C6_OneLine ==
    /\ \A n \in 1..Len(calls) :
        /\ calls[n].err = "" =>
              /\ Len(calls[n].printed) = 1
              /\ calls[n].printed[1].file = calls[n].input
              /\ calls[n].printed[1].kind =
                    IF AllStatus(DecodedDoc(calls[n])) THEN "warning" ELSE "completed"
        /\ calls[n].printed # <<>> =>
              /\ calls[n].err = ""
              /\ OutputNode(calls[n], calls[n].after).kind = "file"
              /\ OutputNode(calls[n], calls[n].after).data.syntax = "ok"
    /\ Cardinality(ReportLines) = Cardinality({n \in 1..Len(calls) : calls[n].err = ""})

C6_Witness ==
    \E n \in 1..Len(calls) :
        /\ calls[n].err = ""
        /\ Len(DecodedDoc(calls[n]).Statements) = 2
        /\ DecodedDoc(calls[n]).Statements[1].Status = "not_affected"
        /\ DecodedDoc(calls[n]).Statements[2].Status = "affected"
        /\ calls[n].printed = <<Line("completed", calls[n].input)>>

(* C7: the document a successful call writes is the decoded input with each
   timestamp and last_updated replaced by the normal form of its own value;
   the statements keep their number and order, every other field its value. *)
NormalForm(v) ==
    CASE v = TsA       -> "2024-01-15T10:30:00.123456Z"
      [] v = TsB       -> "2023-12-31T23:59:59Z"
      [] v = TsShortHr -> "2024-01-15T09:30:00.123456Z"
      [] OTHER         -> "no normal form"

Rewritten(d) ==
    [d EXCEPT !.Timestamp = NormalForm(d.Timestamp),
              !.LastUpdated = NormalForm(d.LastUpdated),
              !.Statements = [k \in 1..Len(d.Statements) |->
                                [d.Statements[k] EXCEPT
                                    !.Timestamp = NormalForm(d.Statements[k].Timestamp),
                                    !.LastUpdated = NormalForm(d.Statements[k].LastUpdated)]]]

C7_OnlyTimestamps ==
    \A n \in 1..Len(calls) :
        calls[n].err = "" =>
            /\ OutputNode(calls[n], calls[n].after).kind = "file"
            /\ Unmarshal(OutputNode(calls[n], calls[n].after).data).err = ""
            /\ Unmarshal(OutputNode(calls[n], calls[n].after).data).vex
                   = Rewritten(DecodedDoc(calls[n]))

C7_Witness ==
    \E n \in 1..Len(calls) :
        /\ calls[n].err = ""
        /\ Len(DecodedDoc(calls[n]).Statements) = 2
        /\ DecodedDoc(calls[n]).Timestamp # DecodedDoc(calls[n]).LastUpdated
        /\ Unmarshal(OutputNode(calls[n], calls[n].after).data).vex # DecodedDoc(calls[n])

(* C8: every error processFile returns, whatever the failing step, carries
   the path of the input file. *)
C8_TaggedWithInput ==
    \A n \in 1..Len(calls) : calls[n].err # "" => Contains(calls[n].err, calls[n].input)

\* the call failed after every field was normalised: at the write
WriteFailed(c) ==
    /\ c.err # ""
    /\ DecodeOk(c)
    /\ FirstFailure(DocFields(DecodedDoc(c))) = 0

(* C8, amended: an error of the read, the decoding or a timestamp's format
   carries the path of the input file; an error of the write carries the
   path of the output file. *)
C8_TaggedWithPath ==
    \A n \in 1..Len(calls) :
        calls[n].err # "" =>
            IF WriteFailed(calls[n])
            THEN Contains(calls[n].err, "error al escribir el archivo " \o calls[n].output \o ":")
            ELSE Contains(calls[n].err, " " \o calls[n].input \o ":")

C8_Witness ==
    \E n \in 1..Len(calls) :
        /\ WriteFailed(calls[n])
        /\ Contains(calls[n].err, calls[n].output)
        /\ ~Contains(calls[n].err, calls[n].input)

(* C9: parseAndFormatTime succeeds on every source timestamp of the pattern
   YYYY-MM-DD HH:MM:SS.ffffff, giving the same date and time of day with one
   final "Z" and the same result each time; on any other string it returns an
   error and no value. *)
C9_Normalizer ==
    \A n \in 1..Len(tres) :
        /\ tres[n] = tres[1]
        /\ original = "2024-01-15 10:30:00.123456" => tres[n].rfc = "2024-01-15T10:30:00.123456Z"
        /\ IF MatchesPattern(original)
           THEN tres[n].err = "" /\ SameInstant(original, tres[n].rfc)
           ELSE tres[n].err # "" /\ tres[n].rfc = ""

(* C10: in recursive mode the inputs are fixed by the discovery; each output
   is vex-modificado.json beside its input and is no discovered input; no
   discovered file is modified, no written file becomes an input, and no
   output path is written twice. *)
C10_OutputsApart ==
    (folderFlag /\ pc \in {"loop", "done"} /\ ~getwdFails) =>
        /\ vexFiles = WalkDir(fs0, WorkDir).vexFiles
        /\ vexFiles = WalkDir(fs, WorkDir).vexFiles
        /\ \A n \in 1..Len(calls) :
              /\ Base(calls[n].output) = "vex-modificado.json"
              /\ Dir(calls[n].output) = Dir(calls[n].input)
              /\ \A k \in 1..Len(vexFiles) : calls[n].output # vexFiles[k]
              /\ \A m \in 1..Len(calls) : m # n => calls[m].output # calls[n].output
              /\ \A q \in DOMAIN calls[n].after :
                    q # calls[n].output => NodeAt(calls[n].after, q) = NodeAt(calls[n].before, q)
        /\ \A k \in 1..Len(vexFiles) : NodeAt(fs, vexFiles[k]) = NodeAt(fs0, vexFiles[k])

C10_Witness ==
    /\ folderFlag /\ pc = "done"
    /\ Len(calls) = 2
    /\ calls[1].err = "" /\ calls[2].err = ""
    /\ fs # fs0
====
